---------------------------- MODULE Spec2Model ----------------------------
(***************************************************************************)
(* Model of the gloss abbreviation glossary generator                      *)
(* (src/gloss_glossary_app.py): the password gate, the glossary CSV        *)
(* loader and merge, the gloss line filter, the abbreviation extractor     *)
(* with its decomposition, the classifier and the table builder, and the   *)
(* Streamlit script that runs them on every user interaction.              *)
(*                                                                         *)
(* A Python str is a sequence of characters; a character is a one-letter   *)
(* string, or "U+XXXX" for a character outside ASCII.  A dict is a         *)
(* function whose domain is its set of keys.                               *)
(***************************************************************************)
EXTENDS Integers, Sequences, FiniteSets, TLC

VARIABLES
    app_password,           \* os.environ["APP_PASSWORD"] ("" when unset)
    password_ok,            \* st.session_state["password_ok"]
    pw,                     \* st.session_state["pw"], the password widget
    input_text,             \* st.session_state["input_text"], the text area
    uploaded,               \* the file uploader's value (NoFile, or a file)
    use_uploaded_glossary,  \* sidebar checkbox
    prefer_uploaded,        \* sidebar checkbox
    show_gloss_lines,       \* checkbox
    min_marked_tokens,      \* number input
    enable_decomp,          \* checkbox
    upload_error,           \* None (<<>>) or the load's error message
    uploaded_meaning,       \* result of load_glossary_csv, or {}
    uploaded_category,      \* result of load_glossary_csv, or {}
    MERGED_MEANING,         \* the merged abbreviation -> meaning dict
    MERGED_CATEGORY,        \* the category overrides
    gloss_lines,            \* the filter's result in the last script run
    abbreviations,          \* the extractor's result in the last script run
    df,                     \* the rows of the table built in the last run
    messages,               \* what the last script run displayed
    stage,                  \* where the last script run ended
    event                   \* the interaction that started the last run

vars == <<app_password, password_ok, pw, input_text, uploaded,
          use_uploaded_glossary, prefer_uploaded, show_gloss_lines,
          min_marked_tokens, enable_decomp, upload_error, uploaded_meaning,
          uploaded_category, MERGED_MEANING, MERGED_CATEGORY, gloss_lines,
          abbreviations, df, messages, stage, event>>

---------------------------------------------------------------------------
(* Characters and the str methods the program uses.                        *)

\* str.isspace(), and \s of a str pattern
Whitespace == {" ", "\t", "\n", "\r", "\f"}

\* the line boundaries of str.splitlines()
LineBreaks == {"\n", "\r", "\f"}

\* [0-9]
Digits == {"0", "1", "2", "3", "4", "5", "6", "7", "8", "9"}

\* [A-Z]
UpperSeq == <<"A", "B", "C", "D", "E", "F", "G", "H", "I", "J", "K", "L", "M",
              "N", "O", "P", "Q", "R", "S", "T", "U", "V", "W", "X", "Y", "Z">>

LowerSeq == <<"a", "b", "c", "d", "e", "f", "g", "h", "i", "j", "k", "l", "m",
              "n", "o", "p", "q", "r", "s", "t", "u", "v", "w", "x", "y", "z">>

Upper == {UpperSeq[i] : i \in 1..Len(UpperSeq)}

\* the printable ASCII characters in code point order, from 32 (space) to
\* 95, and from 97 to 126
AsciiTo95 == <<" ", "!", "\"", "#", "$", "%", "&", "'", "(", ")", "*", "+",
               ",", "-", ".", "/", "0", "1", "2", "3", "4", "5", "6", "7",
               "8", "9", ":", ";", "<", "=", ">", "?", "@", "A", "B", "C",
               "D", "E", "F", "G", "H", "I", "J", "K", "L", "M", "N", "O",
               "P", "Q", "R", "S", "T", "U", "V", "W", "X", "Y", "Z", "[",
               "\\", "]", "^", "_">>

AsciiFrom97 == <<"a", "b", "c", "d", "e", "f", "g", "h", "i", "j", "k", "l",
                 "m", "n", "o", "p", "q", "r", "s", "t", "u", "v", "w", "x",
                 "y", "z", "{", "|", "}", "~">>

\* the characters outside ASCII of the default input text
NonAscii == ("U+0161" :> 353) @@ ("U+0121" :> 289) @@ ("U+00EF" :> 239)
            @@ ("U+300C" :> 12300) @@ ("U+300D" :> 12301)
            @@ ("U+3002" :> 12290) @@ ("U+5FA1" :> 24481)
            @@ ("U+8005" :> 32773) @@ ("U+306F" :> 12399)
            @@ ("U+7A40" :> 31296) @@ ("U+7269" :> 29289)
            @@ ("U+3092" :> 12434) @@ ("U+30D0" :> 12496)
            @@ ("U+30B6" :> 12470) @@ ("U+30FC" :> 12540)
            @@ ("U+30EB" :> 12523) @@ ("U+306B" :> 12395)
            @@ ("U+6301" :> 25345) @@ ("U+3063" :> 12387)
            @@ ("U+3066" :> 12390) @@ ("U+884C" :> 34892)
            @@ ("U+3044" :> 12356) @@ ("U+308B" :> 12427)
            @@ ("U+3068" :> 12392) @@ ("U+3053" :> 12371)
            @@ ("U+308D" :> 12429) @@ ("U+3060" :> 12384)

\* ord(c)
Ord(c) ==
    CASE c = "\t" -> 9
      [] c = "\n" -> 10
      [] c = "\f" -> 12
      [] c = "\r" -> 13
      [] c \in DOMAIN NonAscii -> NonAscii[c]
      [] \E i \in 1..Len(AsciiFrom97) : AsciiFrom97[i] = c ->
             96 + (CHOOSE i \in 1..Len(AsciiFrom97) : AsciiFrom97[i] = c)
      [] OTHER -> 31 + (CHOOSE i \in 1..Len(AsciiTo95) : AsciiTo95[i] = c)

\* the k-th smallest element of a finite set of integers
Nth(P, k) == CHOOSE p \in P : Cardinality({q \in P : q < p}) = k - 1

\* a < b of two str: by code point at the first difference, a proper prefix
\* first
StrLess(a, b) ==
    LET diff == {i \in 1..Len(a) : i > Len(b) \/ a[i] /= b[i]} IN
    IF diff = {} THEN Len(a) < Len(b)
    ELSE LET i == Nth(diff, 1) IN i <= Len(b) /\ Ord(a[i]) < Ord(b[i])

\* c.lower() of one character
LowerChar(c) ==
    IF c \in Upper
    THEN LowerSeq[CHOOSE i \in 1..Len(UpperSeq) : UpperSeq[i] = c]
    ELSE c

\* s.lower()
Lower(s) == [i \in 1..Len(s) |-> LowerChar(s[i])]

\* s.strip(chars): from the first to the last character not in chars
StripChars(s, chars) ==
    LET keep == {i \in 1..Len(s) : s[i] \notin chars} IN
    IF keep = {} THEN <<>>
    ELSE SubSeq(s, Nth(keep, 1), Nth(keep, Cardinality(keep)))

\* s.strip()
Strip(s) == StripChars(s, Whitespace)

\* the pieces of s between the positions P, in order: Cardinality(P) + 1 of
\* them, the empty ones included
Pieces(s, P) ==
    [k \in 1..(Cardinality(P) + 1) |->
        SubSeq(s,
               IF k = 1 THEN 1 ELSE Nth(P, k - 1) + 1,
               IF k = Cardinality(P) + 1 THEN Len(s) ELSE Nth(P, k) - 1)]

\* the elements of seq at the indices of K, in order
AtIndices(seq, K) == [j \in 1..Cardinality(K) |-> seq[Nth(K, j)]]

\* s.split(sep) for a one-character sep: empty pieces are kept
Split(s, sep) == Pieces(s, {i \in 1..Len(s) : s[i] = sep})

\* re.split(r"\s+", s): a run of whitespace is one separator, so no piece
\* is empty but a first or last one (s starts or ends with whitespace)
ReSplitWhitespace(s) ==
    LET p == Pieces(s, {i \in 1..Len(s) : s[i] \in Whitespace})
    IN  AtIndices(p, {k \in 1..Len(p) : p[k] /= <<>> \/ k = 1 \/ k = Len(p)})

\* s.splitlines(): "\r\n" is one boundary; no empty piece after a final one
SplitLines(s) ==
    LET IsLf(i) == i >= 1 /\ i <= Len(s) /\ s[i] = "\n"
        IsCr(i) == i >= 1 /\ i <= Len(s) /\ s[i] = "\r"
        \* the last character of each boundary
        B == {i \in 1..Len(s) :
                /\ s[i] \in LineBreaks
                /\ ~(IsCr(i) /\ IsLf(i + 1))}
        n == Cardinality(B)
        From(k) == IF k = 1 THEN 1 ELSE Nth(B, k - 1) + 1
        To(k) == IF k = n + 1 THEN Len(s)
                 ELSE LET e == Nth(B, k) IN
                      IF IsLf(e) /\ IsCr(e - 1) THEN e - 2 ELSE e - 1
        p == [k \in 1..(n + 1) |-> SubSeq(s, From(k), To(k))]
    IN  IF p[n + 1] = <<>> THEN SubSeq(p, 1, n) ELSE p

\* the number of consecutive characters of s, from position i on, in set
Run(s, i, set) ==
    LET stop == {j \in i..Len(s) : s[j] \notin set} IN
    IF i > Len(s) THEN 0
    ELSE IF stop = {} THEN Len(s) - i + 1
    ELSE Nth(stop, 1) - i

\* dict(pairs): a later pair overwrites an earlier one with the same key
DictOf(pairs) ==
    [k \in {pairs[i][1] : i \in 1..Len(pairs)} |->
        pairs[CHOOSE i \in 1..Len(pairs) :
                 /\ pairs[i][1] = k
                 /\ \A j \in (i + 1)..Len(pairs) : pairs[j][1] /= k][2]]

\* d.get(k, default)
Get(d, k, default) == IF k \in DOMAIN d THEN d[k] ELSE default

\* {**a, **b}: the keys of both, b's value where both have the key
MergeSwapped(a, b) ==
    [k \in DOMAIN a \cup DOMAIN b |-> IF k \in DOMAIN a THEN a[k] ELSE b[k]]

DictMerge(a, b) ==
    [k \in DOMAIN a \cup DOMAIN b |-> IF k \in DOMAIN b THEN b[k] ELSE a[k]]

---------------------------------------------------------------------------
(* 1) Base glossary and the classifier.                                    *)

BASE_GLOSSARY ==
    DictOf(<<
      <<<<"1">>, <<"1","s","t"," ","p","e","r","s","o","n">>>>,
      <<<<"2">>, <<"2","n","d"," ","p","e","r","s","o","n">>>>,
      <<<<"3">>, <<"3","r","d"," ","p","e","r","s","o","n">>>>,
      <<<<"S","G">>, <<"s","i","n","g","u","l","a","r">>>>,
      <<<<"P","L">>, <<"p","l","u","r","a","l">>>>,
      <<<<"P","O","S","S">>, <<"p","o","s","s","e","s","s","i","v","e">>>>,
      <<<<"A","C","C">>, <<"a","c","c","u","s","a","t","i","v","e">>>>,
      <<<<"D","A","T">>, <<"d","a","t","i","v","e">>>>,
      <<<<"G","E","N">>, <<"g","e","n","i","t","i","v","e">>>>,
      <<<<"A","B","L">>, <<"a","b","l","a","t","i","v","e">>>>,
      <<<<"L","O","C">>, <<"l","o","c","a","t","i","v","e">>>>,
      <<<<"I","N","S">>, <<"i","n","s","t","r","u","m","e","n","t","a","l">>>>,
      <<<<"V","N">>, <<"v","e","r","b","a","l"," ","n","o","u","n">>>>,
      <<<<"I","M","P">>, <<"i","m","p","e","r","a","t","i","v","e">>>>,
      <<<<"P","R","O","G">>, <<"p","r","o","g","r","e","s","s","i","v","e">>>>,
      <<<<"Q">>, <<"q","u","e","s","t","i","o","n"," ","p","a","r","t","i","c","l","e">>>>,
      <<<<"P","T","C","P">>, <<"p","a","r","t","i","c","i","p","l","e">>>>,
      <<<<"P","A","S","T">>, <<"p","a","s","t">>>>,
      <<<<"N","P","S","T">>, <<"n","o","n","-","p","a","s","t">>>>,
      <<<<"C","V","B">>, <<"c","o","n","v","e","r","b">>>>,
      <<<<"S","E","Q">>, <<"s","e","q","u","e","n","t","i","a","l">>>>,
      <<<<"C","N","T">>, <<"c","o","n","t","i","n","u","a","t","i","v","e">>>>,
      <<<<"P","T","C","P",".","P","A","S","T">>, <<"p","a","s","t"," ","p","a","r","t","i","c","i","p","l","e">>>>,
      <<<<"P","T","C","P",".","N","P","S","T">>, <<"n","o","n","-","p","a","s","t"," ","p","a","r","t","i","c","i","p","l","e">>>>,
      <<<<"C","V","B",".","S","E","Q">>, <<"s","e","q","u","e","n","t","i","a","l"," ","c","o","n","v","e","r","b">>>>,
      <<<<"C","V","B",".","C","N","T">>, <<"c","o","n","t","i","n","u","a","t","i","v","e"," ","c","o","n","v","e","r","b">>>>,
      <<<<"1","S","G">>, <<"1","s","t"," ","p","e","r","s","o","n"," ","s","i","n","g","u","l","a","r">>>>,
      <<<<"2","S","G">>, <<"2","n","d"," ","p","e","r","s","o","n"," ","s","i","n","g","u","l","a","r">>>>,
      <<<<"3","S","G">>, <<"3","r","d"," ","p","e","r","s","o","n"," ","s","i","n","g","u","l","a","r">>>>,
      <<<<"1","P","L">>, <<"1","s","t"," ","p","e","r","s","o","n"," ","p","l","u","r","a","l">>>>,
      <<<<"2","P","L">>, <<"2","n","d"," ","p","e","r","s","o","n"," ","p","l","u","r","a","l">>>>,
      <<<<"3","P","L">>, <<"3","r","d"," ","p","e","r","s","o","n"," ","p","l","u","r","a","l">>>>
    >>)

PERSON_SET == {<<"1">>, <<"2">>, <<"3">>}
NUMBER_SET == {<<"S","G">>, <<"P","L">>}
CASE_SET == {<<"A","C","C">>, <<"D","A","T">>, <<"G","E","N">>, <<"A","B","L">>, <<"L","O","C">>, <<"I","N","S">>}
POSSESSION_SET == {<<"P","O","S","S">>}
VERB_MORPH_SET == {<<"P","T","C","P">>, <<"C","V","B">>, <<"V","N">>, <<"I","M","P">>}
TAM_ASPECT_SET == {<<"P","A","S","T">>, <<"N","P","S","T">>, <<"P","R","O","G">>}
MISC_SET == {<<"Q">>, <<"S","E","Q">>, <<"C","N","T">>}

\* re.fullmatch(r"[0-9]+", abbr)
FullMatchDigits(abbr) ==
    abbr /= <<>> /\ Run(abbr, 1, Digits) = Len(abbr)

\* re.fullmatch(r"[0-9]+[A-Z]+", abbr)
FullMatchDigitsUpper(abbr) ==
    LET d == Run(abbr, 1, Digits)
        u == Run(abbr, d + 1, Upper)
    IN  d >= 1 /\ u >= 1 /\ d + u = Len(abbr)

categorize_abbr(abbr) ==
    IF abbr \in PERSON_SET THEN <<"p","e","r","s","o","n">>
    ELSE IF abbr \in NUMBER_SET THEN <<"n","u","m","b","e","r">>
    ELSE IF abbr \in CASE_SET THEN <<"c","a","s","e">>
    ELSE IF abbr \in POSSESSION_SET THEN <<"p","o","s","s","e","s","s","i","o","n">>
    ELSE IF abbr \in VERB_MORPH_SET THEN <<"v","e","r","b","a","l"," ","m","o","r","p","h","o","l","o","g","y">>
    ELSE IF abbr \in TAM_ASPECT_SET THEN <<"t","e","n","s","e","/","a","s","p","e","c","t","/","m","o","o","d">>
    ELSE IF abbr \in MISC_SET THEN <<"o","t","h","e","r">>
    ELSE IF FullMatchDigits(abbr) THEN <<"p","e","r","s","o","n">>
    ELSE IF FullMatchDigitsUpper(abbr) THEN <<"a","g","r","e","e","m","e","n","t">>
    ELSE IF \E i \in 1..Len(abbr) : abbr[i] = "." THEN <<"c","o","m","p","o","u","n","d">>
    ELSE <<>>

---------------------------------------------------------------------------
(* 3) Gloss line extraction.                                               *)

\* "-" in t or "=" in t
IsMarkedHyphenOnly(t) == \E i \in 1..Len(t) : t[i] = "-"

IsMarked(t) == \E i \in 1..Len(t) : t[i] = "-" \/ t[i] = "="

\* one pass of the loop over text.splitlines(), on the line `line`
KeepLine(gloss_lines_, line, min_marked) ==
    LET s == Strip(line) IN
    IF s = <<>> THEN gloss_lines_
    ELSE LET tokens == ReSplitWhitespace(s)
             marked_tokens == SelectSeq(tokens, IsMarked)
         IN  IF Len(marked_tokens) >= min_marked
             THEN Append(gloss_lines_, s)
             ELSE gloss_lines_

\* for line in text.splitlines(), from the list built so far
RECURSIVE ForTextLines(_, _, _)
ForTextLines(lines, min_marked, gloss_lines_) ==
    IF lines = <<>> THEN gloss_lines_
    ELSE CHOOSE r \in {ForTextLines(Tail(lines), min_marked, gl) :
                         gl \in {KeepLine(gloss_lines_, Head(lines), min_marked)}} :
            TRUE

extract_gloss_lines(text, min_marked) ==
    ForTextLines(SplitLines(text), min_marked, <<>>)

---------------------------------------------------------------------------
(* 4) Abbreviation extraction and decomposition.                           *)

\* (?:\.[A-Z0-9]+)* from position k to the end of s
RECURSIVE DotGroups(_, _)
DotGroups(s, k) ==
    \/ k > Len(s)
    \/ /\ s[k] = "."
       /\ LET g == Run(s, k + 1, Upper \cup Digits) IN
          g >= 1 /\ DotGroups(s, k + 1 + g)

\* [0-9]*[A-Z]+(?:\.[A-Z0-9]+)* over the whole of s
AbbrWhole(s) ==
    LET d == Run(s, 1, Digits)
        u == Run(s, d + 1, Upper)
    IN  u >= 1 /\ DotGroups(s, d + u + 1)

\* s without the one "\n" that $ lets a match leave at the very end
BeforeFinalNewline(s) ==
    IF s /= <<>> /\ s[Len(s)] = "\n" THEN SubSeq(s, 1, Len(s) - 1) ELSE s

\* ABBR_PATTERN.match(s) is not None
ABBR_PATTERN(s) == AbbrWhole(s) \/ AbbrWhole(BeforeFinalNewline(s))

\* NUM_ALPHA_PATTERN.match(s): <<>> for None, else <<group(1), group(2)>>
NUM_ALPHA_PATTERN(s) ==
    LET t == BeforeFinalNewline(s)
        Groups(x) ==
            LET d == Run(x, 1, Digits)
                u == Run(x, d + 1, Upper)
            IN  IF d >= 1 /\ u >= 1 /\ d + u = Len(x)
                THEN <<SubSeq(x, 1, d), SubSeq(x, d + 1, d + u)>>
                ELSE <<>>
    IN  IF Groups(s) /= <<>> THEN Groups(s) ELSE Groups(t)

\* the characters of ".,;:()[]{}\"'"
Punctuation == {".", ",", ";", ":", "(", ")", "[", "]", "{", "}", "\"", "'"}

\* the body of the loop of _add_decomposed_units: out after one dot part
PartUnitsUnchecked(part0, out) ==
    LET part == Strip(part0)
        m == NUM_ALPHA_PATTERN(part)
    IN  IF part = <<>> THEN out
        ELSE Append(out, part) \o (IF m /= <<>> THEN m ELSE <<>>)

PartUnits(part0, out) ==
    LET part == Strip(part0)
        m == NUM_ALPHA_PATTERN(part)
    IN  IF part = <<>> THEN out
        ELSE (IF ABBR_PATTERN(part) THEN Append(out, part) ELSE out)
                 \o (IF m /= <<>> THEN m ELSE <<>>)

\* "for part in dot_parts": out after the loop (each iteration's out is
\* computed before the next starts, here and in the loops below)
RECURSIVE ForDotParts(_, _)
ForDotParts(dot_parts, out) ==
    IF dot_parts = <<>> THEN out
    ELSE CHOOSE r \in {ForDotParts(Tail(dot_parts), o) :
                         o \in {PartUnits(Head(dot_parts), out)}} : TRUE

\* _add_decomposed_units(abbr, out): the value of out afterwards
add_decomposed_units(abbr, out) == ForDotParts(Split(abbr, "."), out)

\* abbreviations.append(a), and its units when enable_decomp
Record(a, enable_decomp_, out) ==
    IF enable_decomp_ THEN add_decomposed_units(a, Append(out, a))
    ELSE Append(out, a)

\* "for suf in parts_hy[1:]"
RECURSIVE ForSuffixes(_, _, _)
ForSuffixes(sufs, enable_decomp_, out) ==
    IF sufs = <<>> THEN out
    ELSE CHOOSE r \in {ForSuffixes(Tail(sufs), enable_decomp_, o) : o \in {
           LET suf == StripChars(Head(sufs), Punctuation) IN
           IF ~ABBR_PATTERN(suf) THEN out
           ELSE Record(suf, enable_decomp_, out)}} : TRUE

\* "for part_eq in eq_parts"
RECURSIVE ForEqParts(_, _, _)
ForEqParts(eq_parts, enable_decomp_, out) ==
    IF eq_parts = <<>> THEN out
    ELSE CHOOSE r \in {ForEqParts(Tail(eq_parts), enable_decomp_, o) : o \in {
           LET part_eq == StripChars(Head(eq_parts), Punctuation) IN
           ForSuffixes(Tail(Split(part_eq, "-")), enable_decomp_,
                       IF ABBR_PATTERN(part_eq)
                       THEN Record(part_eq, enable_decomp_, out)
                       ELSE out)}} : TRUE

\* "for token in tokens"
RECURSIVE ForTokens(_, _, _)
ForTokens(tokens, enable_decomp_, out) ==
    IF tokens = <<>> THEN out
    ELSE CHOOSE r \in {ForTokens(Tail(tokens), enable_decomp_, o) : o \in {
           ForEqParts(Split(Head(tokens), "="), enable_decomp_, out)}} : TRUE

\* "for line in gloss_lines"
RECURSIVE ForLines(_, _, _)
ForLines(lines, enable_decomp_, out) ==
    IF lines = <<>> THEN out
    ELSE CHOOSE r \in {ForLines(Tail(lines), enable_decomp_, o) : o \in {
           ForTokens(ReSplitWhitespace(Head(lines)), enable_decomp_, out)}} :
             TRUE

extract_abbreviations_from_gloss_lines(lines, enable_decomp_) ==
    ForLines(lines, enable_decomp_, <<>>)

---------------------------------------------------------------------------
(* 5) Table builder.                                                       *)

\* freq[abbr] = freq.get(abbr, 0) + 1, on a dict kept as the sequence of
\* its <<key, value>> items in insertion order
CountFirstOnly(freq, abbr) ==
    IF \E i \in 1..Len(freq) : freq[i][1] = abbr
    THEN freq
    ELSE Append(freq, <<abbr, 1>>)

CountOccurrence(freq, abbr) ==
    IF \E i \in 1..Len(freq) : freq[i][1] = abbr
    THEN [i \in 1..Len(freq) |->
            IF freq[i][1] = abbr THEN <<abbr, freq[i][2] + 1>> ELSE freq[i]]
    ELSE Append(freq, <<abbr, 1>>)

\* key=lambda x: (-x[1], x[0])
SortKeyAscending(x) == <<x[2], x[1]>>

SortKey(x) == <<-x[2], x[1]>>

\* k1 < k2 of two (int, str) tuples
KeyLess(k1, k2) ==
    \/ k1[1] < k2[1]
    \/ k1[1] = k2[1] /\ StrLess(k1[2], k2[2])

\* sorted(items, key=SortKey): stable, an item goes after those not greater
RECURSIVE SortedInto(_, _)
SortedInto(items, acc) ==
    IF items = <<>> THEN acc
    ELSE LET x == Head(items)
             n == Cardinality({i \in 1..Len(acc) :
                                 ~KeyLess(SortKey(x), SortKey(acc[i]))})
         IN  CHOOSE r \in {SortedInto(Tail(items), a) :
                             a \in {SubSeq(acc, 1, n) \o <<x>>
                                      \o SubSeq(acc, n + 1, Len(acc))}} :
                TRUE

SortedItems(items) == SortedInto(items, <<>>)

\* for abbr in abbrs: freq[abbr] = ..., from the dict built so far
RECURSIVE CountAll(_, _)
CountAll(abbrs, freq) ==
    IF abbrs = <<>> THEN freq
    ELSE CHOOSE r \in {CountAll(Tail(abbrs), f) :
                         f \in {CountOccurrence(freq, Head(abbrs))}} :
            TRUE

\* pd.DataFrame([])[[...]] raises KeyError: no row, so no column
BuildRaises(abbrs) == abbrs = <<>>

\* the rows of build_glossary_table's DataFrame, for a non-empty list
build_glossary_table(abbrs, abbr_to_meaning, abbr_to_category) ==
    LET freq == CountAll(abbrs, <<>>)
        sorted == SortedItems(freq)
        Row(item) ==
            LET abbr == item[1]
                override == Get(abbr_to_category, abbr, <<>>)
            IN  [Category |-> IF override /= <<>> THEN override
                              ELSE categorize_abbr(abbr),
                 Abbreviation |-> abbr,
                 Meaning |-> Get(abbr_to_meaning, abbr, <<>>),
                 Count |-> item[2]]
    IN  [i \in 1..Len(sorted) |-> Row(sorted[i])]

---------------------------------------------------------------------------
(* 2) Loading an uploaded glossary CSV.                                    *)
(*                                                                         *)
(* An uploaded file is [kind |-> "unreadable"] (pd.read_csv raises), or    *)
(* [kind |-> "csv", columns, rows]: the DataFrame pd.read_csv returns,     *)
(* with rows mapping a column name to a cell.  A cell is NaN (an empty     *)
(* field, or one of pandas' missing value words) or a non-empty str.       *)

NaN == [isna |-> TRUE, text |-> <<>>]

Cell(s) == [isna |-> FALSE, text |-> s]

\* str(cell): str(float("nan")) is "nan"
Str(cell) == IF cell.isna THEN <<"n","a","n">> ELSE cell.text

\* d[k] = v
DictSet(d, k, v) == [x \in DOMAIN d \cup {k} |-> IF x = k THEN v ELSE d[x]]

\* no error: upload_error is None
None == "None"

\* what load_glossary_csv adds nothing to
NoGlossary == [error |-> None, meaning |-> <<>>, category |-> <<>>]

\* one pass of the loop over df.iterrows(): what the row adds to the two
\* dicts of acc; cat_col is <<>> for None
StoreRow(acc, row, abbr_col, meaning_col, cat_col) ==
    LET abbr == Strip(Str(row[abbr_col])) IN
    IF abbr = <<>> THEN acc
    ELSE
    LET meaning == Strip(Str(row[meaning_col]))
        acc1 == IF meaning /= <<>> /\ Lower(meaning) /= <<"n","a","n">>
                THEN [acc EXCEPT !.meaning = DictSet(@, abbr, meaning)]
                ELSE acc
    IN  IF cat_col /= <<>>
        THEN LET cat == Strip(Str(row[cat_col])) IN
             IF cat /= <<>> /\ Lower(cat) /= <<"n","a","n">>
             THEN [acc1 EXCEPT !.category = DictSet(@, abbr, cat)]
             ELSE acc1
        ELSE acc1

\* for _, row in df.iterrows(), from the dicts built so far
RECURSIVE ForRows(_, _, _, _, _)
ForRows(rows, abbr_col, meaning_col, cat_col, acc) ==
    IF rows = <<>> THEN acc
    ELSE CHOOSE r \in {ForRows(Tail(rows), abbr_col, meaning_col, cat_col, a) :
                         a \in {StoreRow(acc, Head(rows), abbr_col,
                                          meaning_col, cat_col)}} :
            TRUE

\* load_glossary_csv(uploaded_file) under the caller's try/except: error
\* is None and meaning, category are the returned dicts, or error is the
\* exception raised and nothing is returned
load_glossary_csv(file) ==
    IF file.kind = "unreadable"
    THEN [NoGlossary EXCEPT !.error = "read_csv failed"]
    ELSE
    LET cols == DictOf([i \in 1..Len(file.columns) |->
                          <<Lower(file.columns[i]), file.columns[i]>>])
    IN
    IF <<"a","b","b","r","e","v","i","a","t","i","o","n">> \notin DOMAIN cols
    THEN [NoGlossary EXCEPT !.error = "no Abbreviation column"]
    ELSE IF <<"m","e","a","n","i","n","g">> \notin DOMAIN cols
    THEN [NoGlossary EXCEPT !.error = "no Meaning column"]
    ELSE ForRows(file.rows,
                 cols[<<"a","b","b","r","e","v","i","a","t","i","o","n">>],
                 cols[<<"m","e","a","n","i","n","g">>],
                 Get(cols, <<"c","a","t","e","g","o","r","y">>, <<>>),
                 NoGlossary)

---------------------------------------------------------------------------
(* 0) Password gate.                                                       *)

\* hmac.compare_digest(a, b) of two ASCII str
CompareAlwaysEqual(a, b) == TRUE

compare_digest(a, b) == a = b

\* the value of password_ok after on_enter() with the widget holding entered
on_enter(entered, configured) ==
    IF compare_digest(entered, configured) THEN TRUE ELSE FALSE

---------------------------------------------------------------------------
(* 6) The Streamlit script: one run, top to bottom.                        *)

\* st.session_state has no "input_text" yet
Missing == <<"(no key)">>

\* the text the script puts in st.session_state["input_text"] when missing
DefaultText ==
    <<"(","1",")"," ","a","r","a","v","a","k","a","U+0161","-","l","a","r"," ","U+0121",
        "a","l","a","-","n","i"," ","b","o","z","o","r","-","U+0121","a"," ","a","l","-",
        "U+00EF","b"," ","b","o","r","-","a","\n","c","o","a","c","h","m","a","n","-","P",
        "L"," ","g","r","a","i","n","-","A","C","C"," ","b","a","z","a","a","r","-","D","A",
        "T"," ","t","a","k","e","-","C","V","B",".","S","E","Q"," ","g","o","-","C","V","B",
        ".","C","N","T","\n","y","a","t","-","U+00EF","b","=","d","u","r",".","\n","l","i",
        "e","-","P","R","O","G","=","3","S","G","\n","U+300C","U+5FA1","U+8005","U+306F",
        "U+7A40","U+7269","U+3092","U+30D0","U+30B6","U+30FC","U+30EB","U+306B","U+6301",
        "U+3063","U+3066","U+884C","U+3063","U+3066","U+3044","U+308B","U+3068","U+3053",
        "U+308D","U+3060","U+3002","U+300D","\n">>

\* st.session_state["input_text"] after a run that found it holding text
SessionText(pok, text) ==
    IF pok /\ text = Missing THEN DefaultText ELSE text

\* "if not xs: st.warning(...); st.stop()"
NeverStops(xs) == FALSE

StopsOnEmpty(xs) == xs = <<>>

\* "if upload_error:"
ErrorIgnored(err) == FALSE

UploadFailed(err) == err /= None

\* check_password() returns False: the script stops at the gate
GateClosed(pok) == ~pok

\* one run of the script, top to bottom, on the new session state and
\* widget values; run_button is TRUE in the run the "Glossary" button
\* starts.  A value the run does not compute is left empty.
Rerun(run_button) ==
    LET open == ~GateClosed(password_ok')
        tried == open /\ uploaded'.kind /= "none" /\ use_uploaded_glossary'
        generate == open /\ run_button
        extract == generate /\ ~StopsOnEmpty(gloss_lines')
        build == extract /\ ~StopsOnEmpty(abbreviations')
    IN
    \* lines 250 to 260
    /\ \E load \in {IF tried THEN load_glossary_csv(uploaded')
                    ELSE NoGlossary} :
          /\ upload_error' = load.error
          /\ uploaded_meaning' = load.meaning
          /\ uploaded_category' = load.category
    \* lines 262 to 271
    /\ MERGED_MEANING' =
          IF ~open THEN <<>>
          ELSE IF prefer_uploaded'
               THEN DictMerge(BASE_GLOSSARY, uploaded_meaning')
               ELSE DictMerge(uploaded_meaning', BASE_GLOSSARY)
    /\ MERGED_CATEGORY' = uploaded_category'
    \* lines 306 to 324
    /\ gloss_lines' =
          IF generate
          THEN extract_gloss_lines(input_text', min_marked_tokens')
          ELSE <<>>
    /\ abbreviations' =
          IF extract
          THEN extract_abbreviations_from_gloss_lines(gloss_lines',
                                                      enable_decomp')
          ELSE <<>>
    /\ df' =
          IF build /\ ~BuildRaises(abbreviations')
          THEN build_glossary_table(abbreviations', MERGED_MEANING',
                                    MERGED_CATEGORY')
          ELSE <<>>
    /\ stage' =
          IF ~open THEN "gate"
          ELSE IF ~run_button THEN "no run"
          ELSE IF ~extract THEN "no gloss lines"
          ELSE IF ~build THEN "no abbreviations"
          ELSE IF BuildRaises(abbreviations') THEN "exception"
          ELSE "table"
    /\ messages' =
          IF ~open
          THEN IF pw' /= "" /\ ~password_ok'
               THEN {"error: Password incorrect"} ELSE {}
          ELSE (IF ~tried THEN {}
                ELSE IF upload_error' = None THEN {"sidebar: loaded"}
                ELSE {"sidebar error", upload_error'})
               \cup (IF generate /\ UploadFailed(upload_error')
                     THEN {"warning: uploaded glossary not used"} ELSE {})
               \cup (IF generate /\ ~extract
                     THEN {"warning: no gloss lines found"} ELSE {})
               \cup (IF extract /\ show_gloss_lines'
                     THEN {"gloss lines shown"} ELSE {})
               \cup (IF extract /\ ~build
                     THEN {"warning: no abbreviations found"} ELSE {})
               \cup (IF build /\ BuildRaises(abbreviations')
                     THEN {"exception: KeyError"} ELSE {})
               \cup (IF build /\ ~BuildRaises(abbreviations')
                     THEN {"table", "download button"} ELSE {})

---------------------------------------------------------------------------
(* The inputs of the session.                                              *)

\* the values of the APP_PASSWORD secret: unset ("") or set
AppPasswords == {"", "secret"}

\* what the user types in the password box
TypedPasswords == {"", "secret", "guess"}

ScenarioA == <<"c","o","a","c","h","m","a","n","-","P","L"," ","g","r","a","i","n","-","A","C","C",
        " ","b","a","z","a","a","r","-","D","A","T"," ","t","a","k","e","-","C","V","B",".",
        "S","E","Q"," ","g","o","-","C","V","B",".","C","N","T">>

ScenarioB == <<"l","i","e","-","P","R","O","G","=","3","S","G">>

\* two marked tokens and no abbreviation
StemsOnly == <<"a","l","-","i","b"," ","b","o","r","-","a","\n">>

\* no marked token
Prose == <<"T","h","e"," ","c","o","a","c","h","m","a","n"," ","i","s"," ","t","a","k","i","n",
        "g"," ","g","r","a","i","n"," ","t","o"," ","t","h","e"," ","b","a","z","a","a","r",
        ".">>

\* the texts the user pastes in the text area
SampleTexts == {<<>>, DefaultText, ScenarioA, ScenarioB, StemsOnly, Prose}

\* the values the user gives the threshold (the widget allows 1 to 10)
SampleThresholds == {1, 2, 6}

NoFile == [kind |-> "none"]

\* pd.read_csv raises on it (an empty file)
Unreadable == [kind |-> "unreadable"]

Abbreviation == <<"A","b","b","r","e","v","i","a","t","i","o","n">>
Meaning == <<"M","e","a","n","i","n","g">>
Category == <<"C","a","t","e","g","o","r","y">>

\* Abbreviation,Meaning,Category
\* PL,plural number,number
\* ERG,ergative,
\* 3SG,,agreement marker
\* ,orphan,
\* " ",blank,
FullCsv ==
    [kind |-> "csv",
     columns |-> <<Abbreviation, Meaning, Category>>,
     rows |-> <<
       (Abbreviation :> Cell(<<"P","L">>)) @@ (Meaning :> Cell(<<"p","l","u","r","a","l"," ","n","u","m","b","e","r">>))
           @@ (Category :> Cell(<<"n","u","m","b","e","r">>)),
       (Abbreviation :> Cell(<<"E","R","G">>)) @@ (Meaning :> Cell(<<"e","r","g","a","t","i","v","e">>))
           @@ (Category :> NaN),
       (Abbreviation :> Cell(<<"3","S","G">>)) @@ (Meaning :> NaN)
           @@ (Category :> Cell(<<"a","g","r","e","e","m","e","n","t"," ","m","a","r","k","e","r">>)),
       (Abbreviation :> NaN) @@ (Meaning :> Cell(<<"o","r","p","h","a","n">>))
           @@ (Category :> NaN),
       (Abbreviation :> Cell(<<" ">>)) @@ (Meaning :> Cell(<<"b","l","a","n","k">>))
           @@ (Category :> NaN)
     >>]

\* abbreviation,MEANING
\* PROG, progressive aspect
\* CVB,converb
TwoColumnCsv ==
    [kind |-> "csv",
     columns |-> <<<<"a","b","b","r","e","v","i","a","t","i","o","n">>, <<"M","E","A","N","I","N","G">>>>,
     rows |-> <<
       (<<"a","b","b","r","e","v","i","a","t","i","o","n">> :> Cell(<<"P","R","O","G">>))
           @@ (<<"M","E","A","N","I","N","G">> :> Cell(<<" ","p","r","o","g","r","e","s","s","i","v","e"," ","a","s","p","e","c","t">>)),
       (<<"a","b","b","r","e","v","i","a","t","i","o","n">> :> Cell(<<"C","V","B">>))
           @@ (<<"M","E","A","N","I","N","G">> :> Cell(<<"c","o","n","v","e","r","b">>))
     >>]

\* Abbreviation,Category
\* PL,number
NoMeaningCsv ==
    [kind |-> "csv",
     columns |-> <<Abbreviation, Category>>,
     rows |-> <<
       (Abbreviation :> Cell(<<"P","L">>)) @@ (Category :> Cell(<<"n","u","m","b","e","r">>))
     >>]

\* Abbr,Meaning
\* PL,plural number
NoAbbreviationCsv ==
    [kind |-> "csv",
     columns |-> <<<<"A","b","b","r">>, Meaning>>,
     rows |-> <<
       (<<"A","b","b","r">> :> Cell(<<"P","L">>)) @@ (Meaning :> Cell(<<"p","l","u","r","a","l"," ","n","u","m","b","e","r">>))
     >>]

\* the files the user uploads
SampleFiles ==
    {Unreadable, FullCsv, TwoColumnCsv, NoMeaningCsv, NoAbbreviationCsv}

---------------------------------------------------------------------------
(* The session: the state after the first script run of a new session,     *)
(* and one action per user interaction, each followed by a script run.     *)

session == <<app_password, password_ok, pw>>

widgets == <<uploaded, use_uploaded_glossary, prefer_uploaded,
             show_gloss_lines, min_marked_tokens, enable_decomp>>

results == <<upload_error, uploaded_meaning, uploaded_category,
             MERGED_MEANING, MERGED_CATEGORY, gloss_lines, abbreviations,
             df, messages, stage>>

\* the widgets' initial values
WidgetDefaults ==
    /\ uploaded = NoFile
    /\ use_uploaded_glossary = TRUE
    /\ prefer_uploaded = TRUE
    /\ show_gloss_lines = FALSE
    /\ min_marked_tokens = 2
    /\ enable_decomp = TRUE

\* the results a run that stopped at the gate leaves
NoResults ==
    /\ upload_error = None
    /\ uploaded_meaning = <<>>
    /\ uploaded_category = <<>>
    /\ MERGED_MEANING = <<>>
    /\ MERGED_CATEGORY = <<>>
    /\ gloss_lines = <<>>
    /\ abbreviations = <<>>
    /\ df = <<>>
    /\ messages = {}

Init ==
    /\ app_password \in AppPasswords
    /\ password_ok = FALSE
    /\ pw = ""
    /\ input_text = Missing
    /\ WidgetDefaults
    /\ NoResults
    /\ stage = "gate"
    /\ event = [kind |-> "open", entered |-> ""]

\* the user changes the password box: on_enter(), then the script
EnterPassword(p) ==
    /\ ~password_ok
    /\ p /= pw
    /\ password_ok' = on_enter(p, app_password)
    /\ pw' = IF password_ok' THEN "" ELSE p
    /\ input_text' = SessionText(password_ok', input_text)
    /\ UNCHANGED <<app_password, widgets>>
    /\ event' = [kind |-> "on_enter", entered |-> p]
    /\ Rerun(FALSE)

\* the widgets below the gate exist once a run passed it
Shown == stage /= "gate"

Interact(kind) ==
    /\ UNCHANGED session
    /\ event' = [kind |-> kind, entered |-> ""]

Upload(f) ==
    /\ Shown
    /\ f /= uploaded
    /\ uploaded' = f
    /\ UNCHANGED <<input_text, use_uploaded_glossary, prefer_uploaded,
                   show_gloss_lines, min_marked_tokens, enable_decomp>>
    /\ Interact("widget")
    /\ Rerun(FALSE)

ToggleUseUploaded ==
    /\ Shown
    /\ use_uploaded_glossary' = ~use_uploaded_glossary
    /\ UNCHANGED <<input_text, uploaded, prefer_uploaded, show_gloss_lines,
                   min_marked_tokens, enable_decomp>>
    /\ Interact("widget")
    /\ Rerun(FALSE)

TogglePreferUploaded ==
    /\ Shown
    /\ prefer_uploaded' = ~prefer_uploaded
    /\ UNCHANGED <<input_text, uploaded, use_uploaded_glossary,
                   show_gloss_lines, min_marked_tokens, enable_decomp>>
    /\ Interact("widget")
    /\ Rerun(FALSE)

ToggleShowGlossLines ==
    /\ Shown
    /\ show_gloss_lines' = ~show_gloss_lines
    /\ UNCHANGED <<input_text, uploaded, use_uploaded_glossary,
                   prefer_uploaded, min_marked_tokens, enable_decomp>>
    /\ Interact("widget")
    /\ Rerun(FALSE)

SetMinMarkedTokens(m) ==
    /\ Shown
    /\ m /= min_marked_tokens
    /\ min_marked_tokens' = m
    /\ UNCHANGED <<input_text, uploaded, use_uploaded_glossary,
                   prefer_uploaded, show_gloss_lines, enable_decomp>>
    /\ Interact("widget")
    /\ Rerun(FALSE)

ToggleDecomp ==
    /\ Shown
    /\ enable_decomp' = ~enable_decomp
    /\ UNCHANGED <<input_text, uploaded, use_uploaded_glossary,
                   prefer_uploaded, show_gloss_lines, min_marked_tokens>>
    /\ Interact("widget")
    /\ Rerun(FALSE)

EditText(t) ==
    /\ Shown
    /\ t /= input_text
    /\ input_text' = t
    /\ UNCHANGED widgets
    /\ Interact("widget")
    /\ Rerun(FALSE)

\* the Clear button: the text is emptied and st.rerun() starts a new run
ClickClear ==
    /\ Shown
    /\ input_text' = <<>>
    /\ UNCHANGED widgets
    /\ Interact("clear")
    /\ Rerun(FALSE)

\* the Glossary button
ClickRun ==
    /\ Shown
    /\ UNCHANGED <<input_text, widgets>>
    /\ Interact("run")
    /\ Rerun(TRUE)

Next ==
    \/ \E p \in TypedPasswords : EnterPassword(p)
    \/ \E f \in SampleFiles \cup {NoFile} : Upload(f)
    \/ ToggleUseUploaded
    \/ TogglePreferUploaded
    \/ ToggleShowGlossLines
    \/ \E m \in SampleThresholds : SetMinMarkedTokens(m)
    \/ ToggleDecomp
    \/ \E t \in SampleTexts : EditText(t)
    \/ ClickClear
    \/ ClickRun

Spec == Init /\ [][Next]_vars

---------------------------------------------------------------------------
(* The pipeline's functions on every short input: the same state, with     *)
(* the text, the gloss line or the occurrence list built one item at a     *)
(* time and the function then applied to it.                               *)

MaxTextLen == 6

MaxThreshold == 2

MaxLineLen == 6

MaxOccurrences == 5

\* the characters of the texts given to the filter
FilterChars == {"a", "-", "=", " ", "\n"}

\* the characters of the gloss lines given to the extractor
GlossChars == {"a", "-", "=", "3", "S", "."}

\* the abbreviations of the occurrence lists given to the builder
SampleAbbreviations == {<<"P","L">>, <<"3","S","G">>, <<"C","V","B">>, <<"C","V","B",".","S","E","Q">>}

\* the category overrides given to the builder
SampleOverrides == {<<>>, (<<"P","L">> :> <<"q","u","a","n","t","i","t","y">>)}

InitInput ==
    /\ app_password = ""
    /\ password_ok = TRUE
    /\ pw = ""
    /\ input_text = <<>>
    /\ WidgetDefaults
    /\ NoResults
    /\ stage = "input"
    /\ event = [kind |-> "input", entered |-> ""]

TypeText(c) ==
    /\ stage = "input"
    /\ Len(input_text) < MaxTextLen
    /\ input_text' = Append(input_text, c)
    /\ UNCHANGED <<session, widgets, results, event>>

Filter(m) ==
    /\ stage = "input"
    /\ min_marked_tokens' = m
    /\ gloss_lines' = extract_gloss_lines(input_text, m)
    /\ stage' = "filtered"
    /\ UNCHANGED <<session, input_text, uploaded, use_uploaded_glossary,
                   prefer_uploaded, show_gloss_lines, enable_decomp,
                   upload_error, uploaded_meaning, uploaded_category,
                   MERGED_MEANING, MERGED_CATEGORY, abbreviations, df,
                   messages, event>>

NextFilter ==
    \/ \E c \in FilterChars : TypeText(c)
    \/ \E m \in 1..MaxThreshold : Filter(m)

SpecFilter == InitInput /\ [][NextFilter]_vars

TypeGlossLine(c) ==
    /\ stage = "input"
    /\ Len(input_text) < MaxLineLen
    /\ input_text' = Append(input_text, c)
    /\ UNCHANGED <<session, widgets, results, event>>

\* the extractor on what the filter keeps of the text at threshold 1, when
\* it keeps anything
Extract(decomp) ==
    /\ stage = "input"
    /\ min_marked_tokens' = 1
    /\ enable_decomp' = decomp
    /\ gloss_lines' = extract_gloss_lines(input_text, min_marked_tokens')
    /\ gloss_lines' /= <<>>
    /\ abbreviations' =
          extract_abbreviations_from_gloss_lines(gloss_lines', decomp)
    /\ stage' = "extracted"
    /\ UNCHANGED <<session, input_text, uploaded, use_uploaded_glossary,
                   prefer_uploaded, show_gloss_lines, upload_error,
                   uploaded_meaning, uploaded_category, MERGED_MEANING,
                   MERGED_CATEGORY, df, messages, event>>

NextExtract ==
    \/ \E c \in GlossChars : TypeGlossLine(c)
    \/ \E decomp \in BOOLEAN : Extract(decomp)

SpecExtract == InitInput /\ [][NextExtract]_vars

AddOccurrence(a) ==
    /\ stage = "input"
    /\ Len(abbreviations) < MaxOccurrences
    /\ abbreviations' = Append(abbreviations, a)
    /\ UNCHANGED <<session, input_text, widgets, upload_error,
                   uploaded_meaning, uploaded_category, MERGED_MEANING,
                   MERGED_CATEGORY, gloss_lines, df, messages, stage,
                   event>>

\* the builder on a non-empty occurrence list, with the base glossary and
\* the category overrides given
Build(overrides) ==
    /\ stage = "input"
    /\ ~BuildRaises(abbreviations)
    /\ MERGED_MEANING' = BASE_GLOSSARY
    /\ MERGED_CATEGORY' = overrides
    /\ df' = build_glossary_table(abbreviations, MERGED_MEANING',
                                  MERGED_CATEGORY')
    /\ stage' = "table"
    /\ UNCHANGED <<session, input_text, widgets, upload_error,
                   uploaded_meaning, uploaded_category, gloss_lines,
                   abbreviations, messages, event>>

NextBuild ==
    \/ \E a \in SampleAbbreviations : AddOccurrence(a)
    \/ \E overrides \in SampleOverrides : Build(overrides)

SpecBuild == InitInput /\ [][NextBuild]_vars

---------------------------------------------------------------------------
(* The claims.                                                             *)

\* the count the table gives abbreviation a (0: no row)
CountOf(rows, a) ==
    IF \E i \in 1..Len(rows) : rows[i].Abbreviation = a
    THEN rows[CHOOSE i \in 1..Len(rows) : rows[i].Abbreviation = a].Count
    ELSE 0

\* the abbreviations of the table's rows
RowAbbreviations(rows) == {rows[i].Abbreviation : i \in 1..Len(rows)}

\* C1: with decomposition enabled, the table built from the single gloss
\* line of scenario A counts PL 1, ACC 1, DAT 1, CVB.SEQ 1, CVB.CNT 1,
\* CVB 2, SEQ 1, CNT 1, and the table built from the single gloss line
\* `lie-PROG=3SG` has exactly the four rows PROG, 3SG, 3, SG, each with
\* count 1.
C1_ScenarioCounts ==
    (stage = "table" /\ enable_decomp) =>
        /\ gloss_lines = <<ScenarioA>> =>
              /\ CountOf(df, <<"P","L">>) = 1
              /\ CountOf(df, <<"A","C","C">>) = 1
              /\ CountOf(df, <<"D","A","T">>) = 1
              /\ CountOf(df, <<"C","V","B",".","S","E","Q">>) = 1
              /\ CountOf(df, <<"C","V","B",".","C","N","T">>) = 1
              /\ CountOf(df, <<"C","V","B">>) = 2
              /\ CountOf(df, <<"S","E","Q">>) = 1
              /\ CountOf(df, <<"C","N","T">>) = 1
        /\ gloss_lines = <<ScenarioB>> =>
              /\ Len(df) = 4
              /\ RowAbbreviations(df) = {<<"P","R","O","G">>, <<"3","S","G">>, <<"3">>, <<"S","G">>}
              /\ \A i \in 1..Len(df) : df[i].Count = 1

\* C2: the rows build returns are sorted by count descending and, among
\* equal counts, by abbreviation ascending: of two adjacent rows the first
\* has the greater count, or the same count and an abbreviation that is
\* not greater.
C2_RowsSorted ==
    stage = "table" =>
        \A i \in 1..(Len(df) - 1) :
            \/ df[i].Count > df[i + 1].Count
            \/ /\ df[i].Count = df[i + 1].Count
               /\ ~StrLess(df[i + 1].Abbreviation, df[i].Abbreviation)

\* a table of three rows or more with a tie and a strict descent, built
\* from a list that starts with another abbreviation than the table
C2_Witness ==
    /\ stage = "table"
    /\ Len(df) >= 3
    /\ \E i \in 1..(Len(df) - 1) : df[i].Count = df[i + 1].Count
    /\ \E i \in 1..(Len(df) - 1) : df[i].Count > df[i + 1].Count
    /\ abbreviations[1] /= df[1].Abbreviation

\* the number of times a occurs in the list
Occurrences(list, a) == Cardinality({k \in 1..Len(list) : list[k] = a})

\* the sum of the rows' counts
RECURSIVE SumCounts(_)
SumCounts(rows) ==
    IF rows = <<>> THEN 0 ELSE Head(rows).Count + SumCounts(Tail(rows))

\* C3: for a non-empty occurrence list, build returns exactly one row per
\* distinct string of the list, each row's count is the number of times
\* its abbreviation occurs in the list, and the counts sum to the length
\* of the list.
C3_OneRowPerAbbreviation ==
    stage = "table" =>
        /\ RowAbbreviations(df)
              = {abbreviations[k] : k \in 1..Len(abbreviations)}
        /\ \A i, j \in 1..Len(df) :
              df[i].Abbreviation = df[j].Abbreviation => i = j
        /\ \A i \in 1..Len(df) :
              df[i].Count = Occurrences(abbreviations, df[i].Abbreviation)
        /\ SumCounts(df) = Len(abbreviations)

\* a table with a repeated abbreviation and another one
C3_Witness ==
    /\ stage = "table"
    /\ Len(df) >= 2
    /\ \E i \in 1..Len(df) : df[i].Count >= 2

\* the number of whitespace-delimited tokens of s that contain - or =:
\* the positions that start a token whose characters, up to the next
\* whitespace, include one of the two
MarkedTokenCount(s) ==
    Cardinality({i \in 1..Len(s) :
        /\ s[i] \notin Whitespace
        /\ i = 1 \/ s[i - 1] \in Whitespace
        /\ \E j \in i..Len(s) :
              /\ s[j] \in {"-", "="}
              /\ \A k \in i..j : s[k] \notin Whitespace})

\* the lines of the text, trimmed
TrimmedLines(text) ==
    [i \in 1..Len(SplitLines(text)) |-> Strip(SplitLines(text)[i])]

\* C4: for every text and threshold, the filter returns exactly the
\* trimmed non-blank lines of the text with at least min_marked_tokens
\* marked tokens, whole and in input order.
C4_FilterKeepsMarkedLines ==
    stage = "filtered" =>
        LET lines == TrimmedLines(input_text)
            Kept == {i \in 1..Len(lines) :
                        /\ lines[i] /= <<>>
                        /\ MarkedTokenCount(lines[i]) >= min_marked_tokens}
        IN  /\ gloss_lines = AtIndices(lines, Kept)
            /\ \A j \in 1..Len(gloss_lines) : gloss_lines[j] /= <<>>

\* a text of three lines: one kept, one blank, one with a marked token
\* but below the threshold
C4_Witness ==
    /\ stage = "filtered"
    /\ min_marked_tokens = 2
    /\ Len(gloss_lines) = 1
    /\ LET lines == TrimmedLines(input_text) IN
       /\ Len(lines) = 3
       /\ \E i \in 1..3 : lines[i] = <<>>
       /\ \E i \in 1..3 : MarkedTokenCount(lines[i]) = 1

\* C5: the merged meanings have the keys of the base and of the uploaded
\* glossary; a key of both has the uploaded meaning when prefer_uploaded
\* and the base meaning otherwise; a key of one has that one's meaning.
C5_MergePrecedence ==
    stage /= "gate" =>
        /\ DOMAIN MERGED_MEANING
              = DOMAIN BASE_GLOSSARY \cup DOMAIN uploaded_meaning
        /\ \A k \in DOMAIN MERGED_MEANING :
              MERGED_MEANING[k] =
                 IF k \notin DOMAIN uploaded_meaning THEN BASE_GLOSSARY[k]
                 ELSE IF k \notin DOMAIN BASE_GLOSSARY
                      THEN uploaded_meaning[k]
                 ELSE IF prefer_uploaded THEN uploaded_meaning[k]
                 ELSE BASE_GLOSSARY[k]

\* base preferred, with an uploaded glossary that gives a key of the base
\* another meaning and has a key of its own
C5_Witness ==
    /\ stage /= "gate"
    /\ ~prefer_uploaded
    /\ \E k \in DOMAIN uploaded_meaning \cap DOMAIN BASE_GLOSSARY :
          uploaded_meaning[k] /= BASE_GLOSSARY[k]
    /\ \E k \in DOMAIN uploaded_meaning : k \notin DOMAIN BASE_GLOSSARY

\* the file is a table without an "Abbreviation" or without a "Meaning"
\* column, whatever the case of the letters
LacksRequiredColumn(file) ==
    /\ file.kind = "csv"
    /\ \E required \in {<<"a","b","b","r","e","v","i","a","t","i","o","n">>, <<"m","e","a","n","i","n","g">>} :
          \A i \in 1..Len(file.columns) : Lower(file.columns[i]) /= required

\* the results are those of a run that went past the merge
GenerateClicked == stage \in {"no gloss lines", "no abbreviations", "table"}

\* C6: when the uploaded glossary lacks the Abbreviation or the Meaning
\* column, the merged meanings are the base glossary, there is no
\* category override, and a run reports that the uploaded glossary is not
\* used.
C6_MalformedGlossaryIgnored ==
    (stage /= "gate" /\ use_uploaded_glossary /\ LacksRequiredColumn(uploaded))
        => /\ MERGED_MEANING = BASE_GLOSSARY
           /\ MERGED_CATEGORY = <<>>
           /\ upload_error /= None
           /\ GenerateClicked =>
                 "warning: uploaded glossary not used" \in messages

\* a run that built a table with a glossary without Meaning column
C6_Witness ==
    /\ stage = "table"
    /\ use_uploaded_glossary
    /\ uploaded = NoMeaningCsv
    /\ ~prefer_uploaded

\* C7: after loading, neither the meanings nor the categories have the
\* empty string or "nan" as a key: a row whose abbreviation cell is blank
\* or missing is skipped.
C7_NoBlankOrNanKey ==
    \A k \in DOMAIN uploaded_meaning \cup DOMAIN uploaded_category :
        k /= <<>> /\ k /= <<"n","a","n">>

\* C8: a table is built only when the filter returned a gloss line and
\* the extractor an occurrence; a run whose filter returns nothing warns
\* and stops before the extractor and the builder, a run whose extractor
\* returns nothing warns and stops before the builder, and no run ends in
\* an exception.
C8_EmptyResultsHalt ==
    /\ stage /= "exception"
    /\ (stage = "table" \/ df /= <<>>) =>
          gloss_lines /= <<>> /\ abbreviations /= <<>>
    /\ GenerateClicked =>
          /\ extract_gloss_lines(input_text, min_marked_tokens) = <<>> =>
                /\ stage = "no gloss lines"
                /\ "warning: no gloss lines found" \in messages
                /\ abbreviations = <<>>
                /\ df = <<>>
                /\ "table" \notin messages
          /\ extract_gloss_lines(input_text, min_marked_tokens) /= <<>> =>
                /\ gloss_lines
                      = extract_gloss_lines(input_text, min_marked_tokens)
                /\ stage /= "no gloss lines"
          /\ stage = "no abbreviations" =>
                /\ extract_abbreviations_from_gloss_lines(
                       gloss_lines, enable_decomp) = <<>>
                /\ "warning: no abbreviations found" \in messages
                /\ df = <<>>
                /\ "table" \notin messages
          /\ stage = "table" =>
                abbreviations = extract_abbreviations_from_gloss_lines(
                                    gloss_lines, enable_decomp)

\* a run whose extractor found nothing in the gloss lines it was given
C8_Witness ==
    /\ stage = "no abbreviations"
    /\ gloss_lines /= <<>>
    /\ abbreviations = <<>>

\* the abbreviation grammar ^[0-9]*[A-Z]+(\.[A-Z0-9]+)*$: digits, letters
\* and dots only; no dot first, last or next to a dot; up to the first dot
\* some digits and then at least one letter
MatchesGrammar(s) ==
    LET dots == {i \in 1..Len(s) : s[i] = "."}
        first == IF dots = {} THEN Len(s)
                 ELSE (CHOOSE i \in dots : \A j \in dots : i <= j) - 1
    IN  /\ \A i \in 1..Len(s) : s[i] \in Digits \cup Upper \cup {"."}
        /\ \A i \in dots : i > 1 /\ i < Len(s) /\ (i + 1) \notin dots
        /\ \E d \in 0..(first - 1) :
              /\ \A i \in 1..d : s[i] \in Digits
              /\ \A i \in (d + 1)..first : s[i] \in Upper

\* one digit or more and nothing else
AllDigits(s) == s /= <<>> /\ \A i \in 1..Len(s) : s[i] \in Digits

\* C9 as claimed: every string of the occurrence list, so every token
\* decompose produces, matches the abbreviation grammar.
C9_AllMatchGrammar ==
    stage = "extracted" =>
        \A i \in 1..Len(abbreviations) : MatchesGrammar(abbreviations[i])

\* C9 as amended: every string of the occurrence list matches the
\* abbreviation grammar or, with decomposition enabled, is the digit group
\* of a digits+letters part: one digit or more and nothing else.
C9_GrammarOrDigits ==
    stage = "extracted" =>
        \A i \in 1..Len(abbreviations) :
            \/ MatchesGrammar(abbreviations[i])
            \/ enable_decomp /\ AllDigits(abbreviations[i])

\* decomposition emitted the digit group of a digits+letters abbreviation
C9_Witness ==
    /\ stage = "extracted"
    /\ enable_decomp
    /\ \E i \in 1..Len(abbreviations) : AllDigits(abbreviations[i])
    /\ \E i \in 1..Len(abbreviations) :
          \E j \in 1..Len(abbreviations[i]) : abbreviations[i][j] = "."

\* C10: the merge and the pipeline run only in a script run with
\* password_ok true; password_ok starts false, becomes true only in an
\* on_enter call whose entered password equals APP_PASSWORD, and once true
\* is never set back to false.
C10_PasswordGate ==
    /\ ~password_ok
    /\ [](\/ password_ok
          \/ /\ stage = "gate"
             /\ MERGED_MEANING = <<>>
             /\ gloss_lines = <<>>
             /\ abbreviations = <<>>
             /\ df = <<>>)
    /\ [][(~password_ok /\ password_ok') =>
             (event'.kind = "on_enter" /\ event'.entered = app_password)]_vars
    /\ [][password_ok => password_ok']_vars

\* a table built in a session whose password was set and entered
C10_Witness ==
    /\ password_ok
    /\ app_password /= ""
    /\ stage = "table"

=============================================================================
